---- MODULE Spec2Model ----
(***************************************************************************)
(* TileStache/Vector.py: the OGR vector provider.                         *)
(*                                                                         *)
(* Four specifications over one set of variables:                          *)
(*   Spec       Provider.renderTile: _open_layer, the _get_features loop,  *)
(*              the response and its crs, the end of the call              *)
(*   SpecSave   VectorResponse.save on a response built by renderTile      *)
(*   SpecArc    _reserialize_to_arc, statement by statement                *)
(*   SpecProps  _feature_properties on a record, a schema and a whitelist  *)
(***************************************************************************)
EXTENDS Integers, Sequences, FiniteSets, TLC

VARIABLES
    \* Provider fields (Provider.__init__)
    driver, parameters, clipped, verbose, projected, properties,
    \* one renderTile call
    srs,         \* the srs argument of the call
    pc,          \* "idle", "named", "datasource", "loop", "returned", "raised"
    opened,      \* driver.Open has been called during this call
    dsOpen,      \* the data-source handle is open (not released)
    schema,      \* the layer definition's fields
    yielded,     \* the records the layer iterator has produced so far
    features,    \* the list _get_features is building
    error,       \* the exception that ended the call, or NoError
    \* the VectorResponse
    content,     \* VectorResponse.content
    out,         \* what the last save wrote, with the format and the outcome
    \* _reserialize_to_arc, statement by statement
    arcPc, arcContent, arcResponse, arcIndex, arcError,
    \* _feature_properties
    propsIn, propsOut

vars == <<driver, parameters, clipped, verbose, projected, properties,
          srs, pc, opened, dsOpen, schema, yielded, features, error,
          content, out,
          arcPc, arcContent, arcResponse, arcIndex, arcError,
          propsIn, propsOut>>

renderVars == <<driver, parameters, clipped, verbose, projected, properties,
                srs, pc, opened, dsOpen, schema, yielded, features, error>>
saveVars == <<content, out>>
arcVars == <<arcPc, arcContent, arcResponse, arcIndex, arcError>>
propsVars == <<propsIn, propsOut>>

-----------------------------------------------------------------------------
(* Bounds *)

MaxFeatures == 2     \* features in a collection given to save / to Arc
MaxRecords == 2      \* records the layer iterator yields in one call
MaxFields == 2       \* fields of a layer definition
MaxWhitelist == 2    \* names of a list whitelist

-----------------------------------------------------------------------------
(* Small helpers for Python dictionaries and lists *)

\* del d[k]
Del(d, k) == [n \in DOMAIN d \ {k} |-> d[n]]

\* d[k] = v
Put(d, k, v) == (k :> v) @@ d

\* the sequences over S of length at most n
SeqUpTo(S, n) == UNION {[1..k -> S] : k \in 0..n}

\* set(seq)
Range(s) == {s[i] : i \in DOMAIN s}

\* a + b on lists
RECURSIVE Concat(_)
Concat(ss) == IF ss = <<>> THEN <<>> ELSE Head(ss) \o Concat(Tail(ss))

-----------------------------------------------------------------------------
(* GeoJSON geometries, as geometry.ExportToJson() gives them.  Positions   *)
(* are (x, y) pairs.                                                       *)

RingA == <<<<0, 0>>, <<4, 0>>, <<4, 4>>, <<0, 0>>>>
RingHole == <<<<1, 1>>, <<2, 1>>, <<2, 2>>, <<1, 1>>>>
RingB == <<<<5, 5>>, <<6, 5>>, <<6, 6>>, <<5, 5>>>>

GeoPoint == [type |-> "Point", coordinates |-> <<1, 2>>]
GeoLineString == [type |-> "LineString", coordinates |-> <<<<0, 0>>, <<1, 1>>>>]
GeoPolygon == [type |-> "Polygon", coordinates |-> <<RingA, RingHole>>]
GeoMultiPoint == [type |-> "MultiPoint", coordinates |-> <<<<1, 2>>, <<3, 4>>>>]
GeoMultiLineString ==
    [type |-> "MultiLineString",
     coordinates |-> <<<<<<0, 0>>, <<1, 1>>>>, <<<<2, 2>>, <<3, 3>>>>>>]
GeoMultiPolygon ==
    [type |-> "MultiPolygon", coordinates |-> <<<<RingA, RingHole>>, <<RingB>>>>]
\* OGR exports a geometry collection with "geometries" and no coordinates
GeoCollection ==
    [type |-> "GeometryCollection",
     geometries |-> <<[type |-> "Point", coordinates |-> <<1, 2>>]>>]

Geometries == {GeoPoint, GeoLineString, GeoPolygon, GeoMultiPoint,
               GeoMultiLineString, GeoMultiPolygon, GeoCollection}

\* a feature of a collection: its properties name the record it came from
Feature(g, fid) ==
    [type |-> "Feature", properties |-> [NAME |-> fid], geometry |-> g]

\* the feature lists save and _reserialize_to_arc are given: feature i of a
\* list carries fid i, so that no two features of a list are equal
FeatureLists ==
    {[i \in DOMAIN gs |-> Feature(gs[i], i)] : gs \in SeqUpTo(Geometries, MaxFeatures)}

-----------------------------------------------------------------------------
(* Coordinate reference descriptors *)

WktText == "PROJCS[layer projection]"     \* sref.ExportToWkt() of the layer's projection
Wkt4326 == "GEOGCS[WGS 84]"               \* _sref_4326().ExportToWkt()

CrsLink == [type |-> "link", properties |-> [href |-> "0.wkt", type |-> "ogcwkt"]]

\* getProjectionByName('spherical mercator').srs, and the srs of another
\* projection a tile can be requested in
MercatorSrs == "srs of spherical mercator"
RequestedSrs == {MercatorSrs, "srs of WGS84"}

\* the else branch taken whatever the projected flag says
RenderCrsAlwaysUnprojected(isProjected, requested) == [srid |-> 4326, wkid |-> 4326]

\* the crs renderTile builds
RenderCrs(isProjected, requested) ==
    IF isProjected
    THEN IF requested = MercatorSrs
         THEN [wkt |-> WktText, wkid |-> 102113]
         ELSE [wkt |-> WktText]
    ELSE [srid |-> 4326, wkid |-> 4326]

\* the response dictionary renderTile builds
RenderResponse(feats, isProjected, requested) ==
    [type |-> "FeatureCollection", features |-> feats,
     crs |-> RenderCrs(isProjected, requested)]

-----------------------------------------------------------------------------
(* Errors.  An exception is a record of its class and what its message     *)
(* names; NoError stands for no exception.                                 *)

NoError == [type |-> "none"]
KnownUnknown(msg, what) == [type |-> "KnownUnknown", message |-> msg, names |-> what]
TypeError(msg) == [type |-> "TypeError", message |-> msg]
KeyError(key) == [type |-> "KeyError", message |-> key]
PlainException(msg) == [type |-> "Exception", message |-> msg]

-----------------------------------------------------------------------------
(* _reserialize_to_arc *)

ArcTypes == {"Point", "LineString", "Polygon", "MultiPoint",
             "MultiLineString", "MultiPolygon"}

\* arc_geometry_types.get(type): None for a type the table does not hold
arc_geometry_types(type) ==
    CASE type = "Point" -> "esriGeometryPoint"
      [] type = "LineString" -> "esriGeometryPolyline"
      [] type = "Polygon" -> "esriGeometryPolygon"
      [] type = "MultiPoint" -> "esriGeometryMultipoint"
      [] type = "MultiLineString" -> "esriGeometryPolyline"
      [] type = "MultiPolygon" -> "esriGeometryPolygon"
      [] OTHER -> "None"

\* the two set(...) comprehensions
found_geometry_types(c) ==
    {arc_geometry_types(t) : t \in {c.features[i].geometry.type : i \in DOMAIN c.features}}

\* if len(found_geometry_types) > 1
TooManyTypes(found) == Cardinality(found) > 1

\* raise KnownUnknown(... + ', '.join(found_geometry_types)): str.join
\* raises TypeError on an item that is None
TypesError(found) ==
    IF "None" \in found
    THEN TypeError("sequence item: expected string, NoneType found")
    ELSE KnownUnknown("Arc serialization needs a single geometry type", found)

\* the two branches the other way round: a wkt wins over a wkid
SpatialReferenceWktFirst(crs) ==
    IF "wkt" \in DOMAIN crs THEN [wkt |-> crs.wkt]
    ELSE IF "wkid" \in DOMAIN crs THEN [wkid |-> crs.wkid]
    ELSE [wkid |-> 4326]

\* response['spatialReference']
SpatialReference(crs) ==
    IF "wkid" \in DOMAIN crs THEN [wkid |-> crs.wkid]
    ELSE IF "wkt" \in DOMAIN crs THEN [wkt |-> crs.wkt]
    ELSE [wkid |-> 4326]

\* a MultiPolygon's polygons taken as its rings, without reduce(add, ...)
ArcGeometryUnflattened(geometry) ==
    CASE geometry.type = "Point" ->
            [x |-> geometry.coordinates[1], y |-> geometry.coordinates[2]]
      [] geometry.type = "LineString" -> [paths |-> <<geometry.coordinates>>]
      [] geometry.type = "Polygon" -> [rings |-> geometry.coordinates]
      [] geometry.type = "MultiPoint" -> [points |-> geometry.coordinates]
      [] geometry.type = "MultiLineString" -> [paths |-> geometry.coordinates]
      [] geometry.type = "MultiPolygon" -> [rings |-> geometry.coordinates]

\* the if/elif chain on geometry['type']; the caller handles the else branch
ArcGeometry(geometry) ==
    CASE geometry.type = "Point" ->
            [x |-> geometry.coordinates[1], y |-> geometry.coordinates[2]]
      [] geometry.type = "LineString" -> [paths |-> <<geometry.coordinates>>]
      [] geometry.type = "Polygon" -> [rings |-> geometry.coordinates]
      [] geometry.type = "MultiPoint" -> [points |-> geometry.coordinates]
      [] geometry.type = "MultiLineString" -> [paths |-> geometry.coordinates]
      [] geometry.type = "MultiPolygon" -> [rings |-> Concat(geometry.coordinates)]

ArcFeature(feature) ==
    [attributes |-> feature.properties, geometry |-> ArcGeometry(feature.geometry)]

\* one pass of the for loop over response r
ArcAppend(r, feature) ==
    Put([r EXCEPT !.features = Append(@, ArcFeature(feature))],
        "geometryType", arc_geometry_types(feature.geometry.type))

RECURSIVE ArcLoop(_, _)
ArcLoop(r, feats) ==
    IF feats = <<>> THEN [status |-> "ok", response |-> r]
    ELSE IF Head(feats).geometry.type \notin ArcTypes
         THEN [status |-> "raise", error |-> PlainException(Head(feats).geometry.type)]
         ELSE ArcLoop(ArcAppend(r, Head(feats)), Tail(feats))

\* the whole function, as save calls it
reserialize_to_arc(c) ==
    IF TooManyTypes(found_geometry_types(c))
    THEN [status |-> "raise", error |-> TypesError(found_geometry_types(c))]
    ELSE IF "crs" \notin DOMAIN c
         THEN [status |-> "raise", error |-> KeyError("crs")]
         ELSE ArcLoop([spatialReference |-> SpatialReference(c.crs), features |-> <<>>],
                      c.features)

\* The same function one statement at a time.
ArcCheckTypes ==
    /\ arcPc = "start"
    /\ IF TooManyTypes(found_geometry_types(arcContent))
       THEN /\ arcPc' = "raised"
            /\ arcError' = TypesError(found_geometry_types(arcContent))
       ELSE /\ arcPc' = "checked"
            /\ arcError' = arcError
    /\ UNCHANGED <<arcContent, arcResponse, arcIndex>>
    /\ UNCHANGED <<renderVars, saveVars, propsVars>>

ArcSpatialReference ==
    /\ arcPc = "checked"
    /\ IF "crs" \notin DOMAIN arcContent
       THEN /\ arcPc' = "raised"
            /\ arcError' = KeyError("crs")
            /\ arcResponse' = [spatialReference |-> [wkid |-> 4326], features |-> <<>>]
       ELSE /\ arcPc' = "loop"
            /\ arcError' = arcError
            /\ arcResponse' = [spatialReference |-> SpatialReference(arcContent.crs),
                               features |-> <<>>]
    /\ UNCHANGED <<arcContent, arcIndex>>
    /\ UNCHANGED <<renderVars, saveVars, propsVars>>

ArcConvert ==
    /\ arcPc = "loop"
    /\ arcIndex <= Len(arcContent.features)
    /\ LET feature == arcContent.features[arcIndex] IN
       IF feature.geometry.type \notin ArcTypes
       THEN /\ arcPc' = "raised"
            /\ arcError' = PlainException(feature.geometry.type)
            /\ UNCHANGED <<arcResponse, arcIndex>>
       ELSE /\ arcResponse' = ArcAppend(arcResponse, feature)
            /\ arcIndex' = arcIndex + 1
            /\ UNCHANGED <<arcPc, arcError>>
    /\ UNCHANGED arcContent
    /\ UNCHANGED <<renderVars, saveVars, propsVars>>

ArcReturn ==
    /\ arcPc = "loop"
    /\ arcIndex > Len(arcContent.features)
    /\ arcPc' = "returned"
    /\ UNCHANGED <<arcContent, arcResponse, arcIndex, arcError>>
    /\ UNCHANGED <<renderVars, saveVars, propsVars>>


-----------------------------------------------------------------------------
(* The parts a specification does not run stay as they are here. *)

RenderIdle ==
    /\ driver = "" /\ parameters = <<>> /\ clipped = FALSE /\ verbose = FALSE
    /\ projected = FALSE /\ properties = [kind |-> "none"]
    /\ srs = "" /\ pc = "idle" /\ opened = FALSE /\ dsOpen = FALSE
    /\ schema = <<>> /\ yielded = <<>> /\ features = <<>> /\ error = NoError

SaveIdle ==
    /\ content = <<>>
    /\ out = [format |-> "", outcome |-> [type |-> "none"], written |-> [encoder |-> "none"]]

ArcIdle ==
    /\ arcPc = "idle" /\ arcContent = <<>> /\ arcResponse = <<>>
    /\ arcIndex = 1 /\ arcError = NoError

PropsIdle ==
    /\ propsIn = <<>>
    /\ propsOut = [status |-> "none"]

-----------------------------------------------------------------------------
(* SpecArc: _reserialize_to_arc on every collection of the bounds *)

\* the crs dictionaries a content can carry: the three renderTile builds, the
\* link save leaves behind, and one with neither wkid nor wkt
CrsForms ==
    {RenderCrs(p, r) : p \in BOOLEAN, r \in RequestedSrs} \cup {CrsLink, [srid |-> 4326]}

ArcInputs ==
    {[type |-> "FeatureCollection", features |-> fs, crs |-> c] :
        fs \in FeatureLists, c \in CrsForms}
    \cup {[type |-> "FeatureCollection", features |-> fs] : fs \in FeatureLists}

InitArc ==
    /\ RenderIdle /\ SaveIdle /\ PropsIdle
    /\ arcPc = "start"
    /\ arcContent \in ArcInputs
    /\ arcResponse = <<>>
    /\ arcIndex = 1
    /\ arcError = NoError

NextArc == ArcCheckTypes \/ ArcSpatialReference \/ ArcConvert \/ ArcReturn

SpecArc == InitArc /\ [][NextArc]_vars

\* Lemma: the statement-by-statement run ends as the whole function, which
\* save calls, does.
ArcStepsAgree ==
    /\ arcPc = "returned" =>
          reserialize_to_arc(arcContent) = [status |-> "ok", response |-> arcResponse]
    /\ arcPc = "raised" =>
          reserialize_to_arc(arcContent) = [status |-> "raise", error |-> arcError]

\* C3: a collection whose geometries imply more than one Arc tag (a type
\* without an Arc mapping counts as a tag of its own) makes
\* _reserialize_to_arc fail with a KnownUnknown naming those tags, before
\* any response exists and before any feature is converted.
C3_MixedTypesRaiseKnownUnknown ==
    (arcPc # "start" /\ Cardinality(found_geometry_types(arcContent)) > 1) =>
        /\ arcPc = "raised"
        /\ arcError.type = "KnownUnknown"
        /\ arcError.names = found_geometry_types(arcContent)
        /\ arcResponse = <<>>

\* the rings of all polygons of a MultiPolygon, in order
RECURSIVE AllRings(_)
AllRings(polygons) ==
    IF Len(polygons) = 0 THEN <<>>
    ELSE AllRings(SubSeq(polygons, 1, Len(polygons) - 1)) \o polygons[Len(polygons)]

\* the Arc shape the variant of geometry g calls for
ArcShapeOf(g, a) ==
    /\ g.type = "Point" => a = [x |-> g.coordinates[1], y |-> g.coordinates[2]]
    /\ g.type = "LineString" =>
          /\ DOMAIN a = {"paths"} /\ Len(a.paths) = 1 /\ a.paths[1] = g.coordinates
    /\ g.type = "Polygon" => a = [rings |-> g.coordinates]
    /\ g.type = "MultiPoint" => a = [points |-> g.coordinates]
    /\ g.type = "MultiLineString" => a = [paths |-> g.coordinates]
    /\ g.type = "MultiPolygon" => a = [rings |-> AllRings(g.coordinates)]

SingleTag(c) ==
    /\ "crs" \in DOMAIN c
    /\ Cardinality(found_geometry_types(c)) = 1
    /\ "None" \notin found_geometry_types(c)

\* C4: a collection with a single Arc tag is converted without an error into
\* one Arc feature per feature, in order, with the feature's properties as
\* attributes, the geometry in the shape of its variant, and the tag as
\* geometryType.
C4_SingleTagConverted ==
    SingleTag(arcContent) =>
        /\ arcPc # "raised"
        /\ arcPc = "returned" =>
              /\ Len(arcResponse.features) = Len(arcContent.features)
              /\ \A i \in DOMAIN arcContent.features :
                    /\ arcResponse.features[i].attributes = arcContent.features[i].properties
                    /\ DOMAIN arcResponse.features[i] = {"attributes", "geometry"}
                    /\ ArcShapeOf(arcContent.features[i].geometry,
                                  arcResponse.features[i].geometry)
              /\ {arcResponse.geometryType} = found_geometry_types(arcContent)

C4_Witness ==
    /\ arcPc = "returned"
    /\ SingleTag(arcContent)
    /\ Len(arcContent.features) = 2
    /\ arcContent.features[1].geometry.type = "MultiPolygon"
    /\ arcContent.features[2].geometry.type = "Polygon"
    /\ Len(arcResponse.features[1].geometry.rings) = 3

\* C6: the spatialReference is the crs's wkid when it has one (also when it
\* has a wkt too), else its wkt when it has one, else wkid 4326.
C6_SpatialReference ==
    (arcPc \in {"loop", "returned"}) =>
        LET crs == arcContent.crs
            sr == arcResponse.spatialReference
        IN  /\ "wkid" \in DOMAIN crs => (DOMAIN sr = {"wkid"} /\ sr.wkid = crs.wkid)
            /\ ("wkid" \notin DOMAIN crs /\ "wkt" \in DOMAIN crs) =>
                  (DOMAIN sr = {"wkt"} /\ sr.wkt = crs.wkt)
            /\ ("wkid" \notin DOMAIN crs /\ "wkt" \notin DOMAIN crs) =>
                  (DOMAIN sr = {"wkid"} /\ sr.wkid = 4326)

C6_Witness ==
    /\ arcPc = "returned"
    /\ {"wkid", "wkt"} \subseteq DOMAIN arcContent.crs
    /\ arcResponse.spatialReference = [wkid |-> 102113]
    /\ Len(arcResponse.features) > 0

-----------------------------------------------------------------------------
(* VectorResponse.save *)

GeoFormats == {"GeoJSON", "GeoBSON", "GeoAMF"}
ArcFormats == {"ArcJSON", "ArcBSON", "ArcAMF"}
\* the formats getTypeByExtension names, and one it does not
Formats == {"WKT"} \cup GeoFormats \cup ArcFormats \cup {"PNG"}

\* what out.write received: nothing
Nothing == [encoder |-> "none"]

\* the Encode section: which encoder writes the value, and how
Encode(format, value, isVerbose) ==
    CASE format \in {"GeoJSON", "ArcJSON"} ->
            [encoder |-> "JSONEncoder", indent |-> IF isVerbose THEN "2" ELSE "None",
             floats |-> "%.6f", value |-> value]
      [] format \in {"GeoBSON", "ArcBSON"} -> [encoder |-> "bson.dumps", value |-> value]
      [] format \in {"GeoAMF", "ArcAMF"} -> [encoder |-> "pyamf.encode", value |-> value]

\* the Geo* branch with the else branch lost: a crs without wkt stays
GeoContentKeepsCrs(c) ==
    IF "wkt" \in DOMAIN c.crs THEN [c EXCEPT !.crs = CrsLink] ELSE c

\* the Geo* branch: content is self.content itself, changed in place
GeoContent(c) ==
    IF "wkt" \in DOMAIN c.crs THEN [c EXCEPT !.crs = CrsLink] ELSE Del(c, "crs")

\* save(out, format) on content c: the content afterwards, what was written
\* and the exception raised, if any
SaveResult(c, format, isVerbose) ==
    IF format = "WKT"
    THEN IF "crs" \notin DOMAIN c
         THEN [content |-> c, written |-> Nothing, outcome |-> KeyError("crs")]
         ELSE [content |-> c,
               written |-> [encoder |-> "none",
                            text |-> IF "wkt" \in DOMAIN c.crs THEN c.crs.wkt ELSE Wkt4326],
               outcome |-> NoError]
    ELSE IF format \in GeoFormats
    THEN IF "crs" \notin DOMAIN c
         THEN [content |-> c, written |-> Nothing, outcome |-> KeyError("crs")]
         ELSE [content |-> GeoContent(c),
               written |-> Encode(format, GeoContent(c), isVerbose),
               outcome |-> NoError]
    ELSE IF format \in ArcFormats
    THEN LET arc == reserialize_to_arc(c) IN
         IF arc.status = "raise"
         THEN [content |-> c, written |-> Nothing, outcome |-> arc.error]
         ELSE [content |-> c,
               written |-> Encode(format, arc.response, isVerbose),
               outcome |-> NoError]
    ELSE [content |-> c, written |-> Nothing,
          outcome |-> KnownUnknown("Vector response only saves .geojson, .arcjson, .geobson, .arcbson, .geoamf, .arcamf and .wkt tiles",
                                   {format})]

Save(format) ==
    /\ pc = "returned"
    /\ LET r == SaveResult(content, format, verbose) IN
       /\ content' = r.content
       /\ out' = [format |-> format, outcome |-> r.outcome, written |-> r.written]
    /\ UNCHANGED <<renderVars, arcVars, propsVars>>

SaveAny == \E format \in Formats : Save(format)

-----------------------------------------------------------------------------
(* SpecSave: save, any number of times, on a response renderTile built *)

InitSave ==
    /\ ArcIdle /\ PropsIdle
    /\ driver = "" /\ parameters = <<>> /\ clipped = FALSE
    /\ properties = [kind |-> "none"]
    /\ verbose \in BOOLEAN
    /\ projected \in BOOLEAN
    /\ srs \in RequestedSrs
    /\ pc = "returned" /\ opened = TRUE /\ dsOpen = FALSE
    /\ schema = <<>> /\ yielded = <<>> /\ error = NoError
    /\ features \in FeatureLists
    /\ content = RenderResponse(features, projected, srs)
    /\ out = [format |-> "", outcome |-> NoError, written |-> Nothing]

NextSave == SaveAny

SpecSave == InitSave /\ [][NextSave]_vars

\* content is still what renderTile built
AsBuilt == content = RenderResponse(features, projected, srs)

\* C1: a save that follows a successful save of the same format succeeds too
\* and writes the same output.
C1_SaveTwiceSameOutput ==
    [][(out.format # "" /\ out.outcome = NoError /\ out'.format = out.format)
          => out' = out]_vars

\* C2: a Geo* save of a response as renderTile built it writes the link
\* descriptor as crs when the crs has a wkt and no crs key when it has none,
\* with the features of the response unchanged.
C2_GeoCrs ==
    [][(AsBuilt /\ out'.format \in GeoFormats /\ <<content, out>>' # <<content, out>>)
          => /\ out'.outcome = NoError
             /\ out'.written.value.features = features
             /\ content'.features = features
             /\ IF "wkt" \in DOMAIN content.crs
                THEN /\ "crs" \in DOMAIN out'.written.value
                     /\ out'.written.value.crs =
                           [type |-> "link",
                            properties |-> [href |-> "0.wkt", type |-> "ogcwkt"]]
                ELSE "crs" \notin DOMAIN out'.written.value]_vars

C2_Witness ==
    /\ out.format = "GeoBSON"
    /\ out.outcome = NoError
    /\ "crs" \in DOMAIN out.written.value
    /\ out.written.value.crs = CrsLink
    /\ Len(out.written.value.features) = 2

-----------------------------------------------------------------------------
(* _feature_properties *)

\* OGR field types, as the docstring numbers them
OFTInteger == 0
OFTReal == 2
OFTString == 4
OFTWideString == 6
OFTDate == 9
\* a type number the ogr module has no OFT name for
OFTUnseen == 12

okay_types == {OFTInteger, OFTReal, OFTString, OFTWideString}

\* [oft for oft in dir(ogr) if oft.startswith('OFT') and getattr(ogr, oft) == field_type]
OFTNames(field_type) ==
    CASE field_type = 0 -> <<"OFTInteger">>
      [] field_type = 1 -> <<"OFTIntegerList">>
      [] field_type = 2 -> <<"OFTReal">>
      [] field_type = 3 -> <<"OFTRealList">>
      [] field_type = 4 -> <<"OFTString">>
      [] field_type = 5 -> <<"OFTStringList">>
      [] field_type = 6 -> <<"OFTWideString">>
      [] field_type = 7 -> <<"OFTWideStringList">>
      [] field_type = 8 -> <<"OFTBinary">>
      [] field_type = 9 -> <<"OFTDate">>
      [] field_type = 10 -> <<"OFTTime">>
      [] field_type = 11 -> <<"OFTDateTime">>
      [] OTHER -> <<>>

\* the exception for a field type outside okay_types
FieldTypeError(field_type) ==
    IF OFTNames(field_type) = <<>>
    THEN KnownUnknown("Found an OGR field type I've never even seen", {"%d"})
    ELSE KnownUnknown("Found an OGR field type I don't know what to do with",
                      {OFTNames(field_type)[1]})

\* type(whitelist) in (list, dict) and name not in whitelist
Skipped(name, whitelist) ==
    CASE whitelist.kind = "list" -> name \notin Range(whitelist.names)
      [] whitelist.kind = "dict" -> name \notin DOMAIN whitelist.map
      [] OTHER -> FALSE

\* type(whitelist) is dict and whitelist[name] or name: the empty string is
\* false, so "x and '' or name" is name
PropertyName(name, whitelist) ==
    IF whitelist.kind = "dict"
    THEN IF whitelist.map[name] # "" THEN whitelist.map[name] ELSE name
    ELSE name

\* the for loop from field index on, with the properties gathered so far
RECURSIVE PropertiesFrom(_, _, _, _, _)
PropertiesFrom(feature, layer_definition, whitelist, index, props) ==
    IF index > Len(layer_definition)
    THEN [status |-> "ok", properties |-> props]
    ELSE LET field_definition == layer_definition[index]
             name == field_definition.name
         IN  IF field_definition.type \notin okay_types
             THEN [status |-> "raise", error |-> FieldTypeError(field_definition.type)]
             ELSE IF Skipped(name, whitelist)
             THEN PropertiesFrom(feature, layer_definition, whitelist, index + 1, props)
             ELSE PropertiesFrom(feature, layer_definition, whitelist, index + 1,
                                 Put(props, PropertyName(name, whitelist), feature[name]))

feature_properties(feature, layer_definition, whitelist) ==
    PropertiesFrom(feature, layer_definition, whitelist, 1, <<>>)

FeatureProperties ==
    /\ propsOut.status = "none"
    /\ DOMAIN propsIn # {}
    /\ propsOut' = feature_properties(propsIn.feature, propsIn.definition, propsIn.whitelist)
    /\ UNCHANGED propsIn
    /\ UNCHANGED <<renderVars, saveVars, arcVars>>

-----------------------------------------------------------------------------
(* SpecProps: _feature_properties on the records, layer definitions and    *)
(* whitelists of the bounds                                                 *)

FieldNames == {"NAME", "HIGHWAY", "ID"}

\* feature.GetField(name) of the record with feature id fid, for every name
FieldsOf(fid) == [NAME |-> 10 * fid + 1, HIGHWAY |-> 10 * fid + 2, ID |-> 10 * fid + 3]
FieldTypes == {OFTInteger, OFTString, OFTDate, OFTUnseen}

\* layer definitions: up to n fields, no name twice
Definitions(n, types) ==
    {d \in SeqUpTo([name : FieldNames, type : types], n) :
        \A i, j \in DOMAIN d : i # j => d[i].name # d[j].name}

\* the fields of two records; no two fields of a record agree
RecordFields == {FieldsOf(1), FieldsOf(2)}

\* the names a rename mapping maps to: a new name, the name of another field,
\* and the empty name
OutputNames == {"label", "HIGHWAY", ""}

Whitelists ==
    {[kind |-> "none"]}
    \cup {[kind |-> "list", names |-> l] :
             l \in SeqUpTo(FieldNames \cup {"OTHER"}, MaxWhitelist)}
    \cup {[kind |-> "dict", map |-> m] :
             m \in UNION {[D -> OutputNames] : D \in SUBSET FieldNames}}

InitProps ==
    /\ RenderIdle /\ SaveIdle /\ ArcIdle
    /\ propsIn \in [feature : RecordFields,
                    definition : Definitions(MaxFields, FieldTypes),
                    whitelist : Whitelists]
    /\ propsOut = [status |-> "none"]

NextProps == FeatureProperties

SpecProps == InitProps /\ [][NextProps]_vars

\* the names of the fields of a layer definition
DefinitionNames(d) == {d[i].name : i \in DOMAIN d}

\* C8: the keys of the result are all fields (no whitelist), the listed
\* fields (list), or the mapped names of the mapped fields, one per mapped
\* field (rename mapping whose mapped names are distinct); every value is
\* the record's value of the originating field.
C8_PropertiesProjected ==
    propsOut.status = "ok" =>
        LET names == DefinitionNames(propsIn.definition)
            w == propsIn.whitelist
            rec == propsIn.feature
            props == propsOut.properties
        IN  /\ w.kind = "none" =>
                  /\ DOMAIN props = names
                  /\ \A n \in names : props[n] = rec[n]
            /\ w.kind = "list" =>
                  /\ DOMAIN props = names \cap Range(w.names)
                  /\ \A n \in DOMAIN props : props[n] = rec[n]
            /\ (/\ w.kind = "dict"
                /\ \A a, b \in DOMAIN w.map : a # b => w.map[a] # w.map[b]) =>
                  /\ DOMAIN props = {w.map[n] : n \in names \cap DOMAIN w.map}
                  /\ \A n \in names \cap DOMAIN w.map : props[w.map[n]] = rec[n]

-----------------------------------------------------------------------------
(* _open_layer *)

\* driver_name.lower() on the driver names of the model
Lower(name) ==
    CASE name = "PostGIS" -> "postgis"
      [] name = "PostgreSQL" -> "postgresql"
      [] name = "Shapefile" -> "shapefile"
      [] name = "ESRI Shapefile" -> "esri shapefile"
      [] name = "GeoJSON" -> "geojson"
      [] name = "Mapnik" -> "mapnik"
      [] OTHER -> name

\* the okay_drivers dictionary; "" for a name it does not hold
okay_drivers(lower) ==
    CASE lower \in {"postgis", "postgresql"} -> "PostgreSQL"
      [] lower \in {"esri shapefile", "shapefile"} -> "ESRI Shapefile"
      [] lower = "geojson" -> "GeoJSON"
      [] OTHER -> ""

\* the scheme urlparse finds in urljoin(dirpath, file), dirpath being a local
\* directory
Scheme(file) ==
    CASE file = "stclines.json" -> ""
      [] file = "file:///data/stclines.json" -> "file"
      [] file = "http://example.com/stclines.json" -> "http"

\* "Set up the driver" and "Set up the datasource": the exception raised
\* before driver.Open, or NoError
SetUpError(driver_name, params) ==
    LET name == okay_drivers(Lower(driver_name)) IN
    IF name = ""
    THEN KnownUnknown("Got a driver type Vector doesn't understand", {driver_name})
    ELSE IF name = "PostgreSQL"
    THEN IF "dbname" \notin DOMAIN params
         THEN KnownUnknown("Need at least a dbname parameter for postgis", {"dbname"})
         ELSE NoError
    ELSE IF "file" \notin DOMAIN params
         THEN KnownUnknown("Need at least a file parameter for a shapefile", {"file"})
         ELSE IF Scheme(params.file) \notin {"file", ""}
              THEN KnownUnknown("Shapefiles need to be local", {params.file})
              ELSE NoError

\* "Set up the layer": the exception of the else branch, or NoError
LayerError(driver_name, params) ==
    IF /\ okay_drivers(Lower(driver_name)) = "PostgreSQL"
       /\ "query" \notin DOMAIN params
       /\ "table" \notin DOMAIN params
    THEN KnownUnknown("Need at least a query or table parameter for postgis",
                      {"query", "table"})
    ELSE NoError

\* renderTile calls _open_layer: everything up to source_name
OpenLayerSetUp ==
    /\ pc = "idle"
    /\ srs' \in RequestedSrs
    /\ IF SetUpError(driver, parameters) # NoError
       THEN pc' = "raised" /\ error' = SetUpError(driver, parameters)
       ELSE pc' = "named" /\ error' = error
    /\ UNCHANGED <<driver, parameters, clipped, verbose, projected, properties,
                   opened, dsOpen, schema, yielded, features>>
    /\ UNCHANGED <<saveVars, arcVars, propsVars>>

\* datasource = driver.Open(str(source_name)), which gives None for a source
\* it cannot open
OpenDatasource ==
    /\ pc = "named"
    /\ opened' = TRUE
    /\ \E datasourceIsNone \in BOOLEAN :
          IF datasourceIsNone
          THEN /\ pc' = "raised"
               /\ error' = KnownUnknown("Couldn't open datasource", {"source_name"})
               /\ dsOpen' = FALSE
          ELSE /\ pc' = "datasource"
               /\ error' = error
               /\ dsOpen' = TRUE
    /\ UNCHANGED <<driver, parameters, clipped, verbose, projected, properties,
                   srs, schema, yielded, features>>
    /\ UNCHANGED <<saveVars, arcVars, propsVars>>

\* the layer definitions a render call meets: one of supported types, one
\* with a date field
RenderDefinitions ==
    {<<[name |-> "NAME", type |-> OFTString], [name |-> "HIGHWAY", type |-> OFTString]>>,
     <<[name |-> "NAME", type |-> OFTString], [name |-> "ID", type |-> OFTDate]>>}

\* "Set up the layer", the check of its spatial reference, the return, and
\* the start of _get_features.  The data source may give no layer (None) or
\* a layer without a spatial reference.
OpenLayerGetLayer ==
    /\ pc = "datasource"
    /\ IF LayerError(driver, parameters) # NoError
       THEN /\ pc' = "raised"
            /\ error' = LayerError(driver, parameters)
            /\ UNCHANGED schema
       ELSE \E layer \in {"None", "no spatial reference", "layer"} :
               CASE layer = "None" ->
                       /\ pc' = "raised"
                       /\ error' = [type |-> "AttributeError",
                                    message |-> "'NoneType' object has no attribute 'GetSpatialRef'"]
                       /\ UNCHANGED schema
                 [] layer = "no spatial reference" ->
                       /\ pc' = "raised"
                       /\ error' = KnownUnknown("Couldn't get a layer from data source",
                                                {"source_name"})
                       /\ UNCHANGED schema
                 [] layer = "layer" ->
                       /\ pc' = "loop"
                       /\ error' = error
                       /\ schema' \in RenderDefinitions
    /\ features' = <<>>
    /\ UNCHANGED <<driver, parameters, clipped, verbose, projected, properties,
                   srs, opened, dsOpen, yielded>>
    /\ UNCHANGED <<saveVars, arcVars, propsVars>>

-----------------------------------------------------------------------------
(* _get_features *)

\* How a record's geometry lies to the tile's boundary polygon:
\*   "disjoint"    inside the driver's bounding filter, outside the polygon
\*   "within"      inside the polygon: the clip is the geometry itself
\*   "crossing"    partly inside: the clip is another geometry
\*   "degenerate"  Intersect answers true and Intersection gives None
Relations == {"disjoint", "within", "crossing", "degenerate"}

\* the geometries of the records of a layer
LayerGeometries == {GeoPoint, GeoLineString, GeoPolygon}

Records == [geometry : LayerGeometries, relation : Relations]

NoneGeometry == [type |-> "None"]

\* geometry.Intersect(bbox)
Intersect(record) == record.relation # "disjoint"

\* geometry.Intersection(bbox): None, the geometry, or the part inside
Intersection(record) ==
    CASE record.relation \in {"degenerate", "disjoint"} -> NoneGeometry
      [] record.relation = "within" -> record.geometry
      [] record.relation = "crossing" ->
            IF record.geometry = GeoLineString THEN GeoMultiLineString
            ELSE IF record.geometry = GeoPolygon THEN GeoMultiPolygon
            ELSE record.geometry

\* the geometry of the loop body once the two "continue" tests are behind
\* it, with the Intersect test lost
ClippedGeometryNoIntersectTest(record, isClipped) ==
    IF isClipped THEN Intersection(record) ELSE record.geometry

\* the geometry the loop body goes on with, NoneGeometry where it continues
\* with the next record
ClippedGeometry(record, isClipped) ==
    IF ~Intersect(record) THEN NoneGeometry
    ELSE IF isClipped THEN Intersection(record) ELSE record.geometry

\* for feature in layer: one pass of the loop body on the next record, whose
\* feature id is its place in the iteration
GetFeaturesNext ==
    /\ pc = "loop"
    /\ Len(yielded) < MaxRecords
    /\ \E record \in Records :
          LET fid == Len(yielded) + 1
              geometry == ClippedGeometry(record, clipped)
              prop == feature_properties(FieldsOf(fid), schema, properties)
          IN  /\ yielded' = Append(yielded, record)
              /\ IF geometry = NoneGeometry
                 THEN UNCHANGED <<pc, error, features>>
                 ELSE IF prop.status = "raise"
                 THEN /\ pc' = "raised"
                      /\ error' = prop.error
                      /\ UNCHANGED features
                 ELSE /\ features' = Append(features,
                                            [type |-> "Feature",
                                             properties |-> prop.properties,
                                             geometry |-> geometry])
                      /\ UNCHANGED <<pc, error>>
    /\ UNCHANGED <<driver, parameters, clipped, verbose, projected, properties,
                   srs, opened, dsOpen, schema>>
    /\ UNCHANGED <<saveVars, arcVars, propsVars>>

-----------------------------------------------------------------------------
(* Provider.renderTile *)

\* The layer has no more records: _get_features returns, renderTile builds
\* the response and returns the VectorResponse.  With the frame of the call
\* gone nothing refers to ds, and it is released.
RenderReturn ==
    /\ pc = "loop"
    /\ content' = RenderResponse(features, projected, srs)
    /\ pc' = "returned"
    /\ dsOpen' = FALSE
    /\ UNCHANGED <<driver, parameters, clipped, verbose, projected, properties,
                   srs, opened, schema, yielded, features, error>>
    /\ UNCHANGED <<out, arcVars, propsVars>>

\* After an exception the traceback holds the frames of the call, and the
\* frame holds ds (renderTile) or datasource (_open_layer): the handle is
\* released when the caller has dropped the traceback.
DropTraceback ==
    /\ pc = "raised"
    /\ dsOpen
    /\ dsOpen' = FALSE
    /\ UNCHANGED <<driver, parameters, clipped, verbose, projected, properties,
                   srs, pc, opened, schema, yielded, features, error>>
    /\ UNCHANGED <<saveVars, arcVars, propsVars>>

-----------------------------------------------------------------------------
(* Spec: one renderTile call of a Provider *)

\* the whitelists of the providers rendered
RenderWhitelists ==
    {[kind |-> "none"],
     [kind |-> "list", names |-> <<"NAME">>],
     [kind |-> "dict", map |-> [NAME |-> "label"]]}

\* the driver names given: two database synonyms in mixed case, two file
\* drivers and a driver Vector does not know
DriverNames == {"PostGIS", "Shapefile", "GeoJSON", "Mapnik"}

\* the parameters given: any of dbname, table and query, or a file
DbParameters ==
    {[k \in keys |-> CASE k = "dbname" -> "geodata"
                      [] k = "table" -> "planet_osm_line"
                      [] k = "query" -> "SELECT way FROM planet_osm_line"] :
        keys \in SUBSET {"dbname", "table", "query"}}
FileParameters ==
    {[file |-> f] : f \in {"stclines.json", "file:///data/stclines.json",
                          "http://example.com/stclines.json"}}

InitProvider ==
    /\ clipped \in BOOLEAN
    /\ verbose \in BOOLEAN
    /\ projected \in BOOLEAN
    /\ properties \in RenderWhitelists
    /\ srs = ""
    /\ pc = "idle" /\ opened = FALSE /\ dsOpen = FALSE
    /\ schema = <<>> /\ yielded = <<>> /\ features = <<>> /\ error = NoError

Init ==
    /\ SaveIdle /\ ArcIdle /\ PropsIdle
    /\ InitProvider
    /\ driver \in DriverNames
    /\ parameters \in DbParameters \cup FileParameters

Next ==
    \/ OpenLayerSetUp
    \/ OpenDatasource
    \/ OpenLayerGetLayer
    \/ GetFeaturesNext
    \/ RenderReturn
    \/ DropTraceback

Spec == Init /\ [][Next]_vars

\* C5 as stated: the crs of a response is of the form {srid, wkid} or of the
\* form {wkt}, whatever the projected flag and the requested srs.
C5_CrsOneFormOnly ==
    pc = "returned" => DOMAIN content.crs \in {{"srid", "wkid"}, {"wkt"}}

\* C5: the crs of an unprojected response is {srid: 4326, wkid: 4326}; the
\* crs of a projected response holds the wkt and no srid, and holds wkid
\* 102113 besides exactly when the requested srs is spherical mercator's.
C5_CrsForms ==
    pc = "returned" =>
        /\ ~projected => content.crs = [srid |-> 4326, wkid |-> 4326]
        /\ projected =>
              /\ "wkt" \in DOMAIN content.crs
              /\ "srid" \notin DOMAIN content.crs
              /\ DOMAIN content.crs \subseteq {"wkt", "wkid"}
              /\ "wkid" \in DOMAIN content.crs <=> srs = MercatorSrs
              /\ "wkid" \in DOMAIN content.crs => content.crs.wkid = 102113

C5_Witness ==
    /\ pc = "returned"
    /\ projected
    /\ srs = MercatorSrs
    /\ DOMAIN content.crs = {"wkt", "wkid"}
    /\ Len(content.features) > 0

\* a record passes: it intersects the boundary and, when clipping, its clip
\* is a geometry
Passes(record) ==
    /\ record.relation # "disjoint"
    /\ clipped => record.relation # "degenerate"

\* the places of the records of yielded that pass, in order
RECURSIVE PassingPlaces(_)
PassingPlaces(n) ==
    IF n = 0 THEN <<>>
    ELSE IF Passes(yielded[n]) THEN Append(PassingPlaces(n - 1), n)
         ELSE PassingPlaces(n - 1)

\* C7: while _get_features runs and when it has returned, the feature list
\* is the records yielded so far that pass, in the order of the iteration,
\* each with its own properties and its (clipped) geometry; a record that
\* does not pass raises nothing.
C7_FeaturesAreThePassingRecords ==
    /\ pc \in {"loop", "returned"} =>
          LET places == PassingPlaces(Len(yielded)) IN
          /\ Len(features) = Len(places)
          /\ \A k \in DOMAIN places :
                LET record == yielded[places[k]] IN
                /\ features[k].properties =
                      feature_properties(FieldsOf(places[k]), schema, properties).properties
                /\ features[k].geometry =
                      IF clipped THEN Intersection(record) ELSE record.geometry
    /\ (pc = "raised" /\ Len(yielded) > 0) => Passes(yielded[Len(yielded)])

C7_Witness ==
    /\ pc = "returned"
    /\ clipped
    /\ Len(yielded) = 2
    /\ yielded[1].relation = "degenerate"
    /\ yielded[2].relation = "crossing"
    /\ Len(features) = 1
    /\ content.features = features

\* the configuration errors of _open_layer
ConfigurationErrors ==
    {"Got a driver type Vector doesn't understand",
     "Need at least a dbname parameter for postgis",
     "Need at least a file parameter for a shapefile",
     "Shapefiles need to be local",
     "Need at least a query or table parameter for postgis"}

\* C9: a call that ended in a configuration error has not called driver.Open.
C9_ConfigurationErrorsBeforeOpen ==
    (pc = "raised" /\ error.message \in ConfigurationErrors) => ~opened

\* the errors of the exit paths C10 names: the two raised in _open_layer
\* once the source is open, and the schema errors of _feature_properties
ErrorsAfterOpen ==
    {"Need at least a query or table parameter for postgis",
     "Couldn't get a layer from data source",
     "Found an OGR field type I've never even seen",
     "Found an OGR field type I don't know what to do with"}

\* C10: when the call has ended, by a return or by one of the errors raised
\* once the source is open, the handle it opened is released.
C10_HandleReleasedAtEnd ==
    (pc = "returned" \/ (pc = "raised" /\ error.message \in ErrorsAfterOpen)) => ~dsOpen

\* C11: whatever Geo* saves came before, a WKT or Arc* save writes what the
\* same save writes on the response as renderTile built it, and ends the
\* same way: the WKT save of a projected response writes its wkt, the Arc*
\* save carries the spatialReference of the crs renderTile built.
C11_SaveIgnoresEarlierSaves ==
    out.format \in {"WKT"} \cup ArcFormats =>
        LET fresh == SaveResult(RenderResponse(features, projected, srs),
                                out.format, verbose)
        IN  /\ out.outcome = fresh.outcome
            /\ out.written = fresh.written

====
